---- MODULE Spec2Model ----
(***************************************************************************)
(* Publish queue and safety gate of the social-automation pipeline         *)
(* (src/src/publishing/scheduler.py, src/src/publishing/tiktok.py).        *)
(*                                                                         *)
(* The publish_queue table is a sequence of rows; the row id is the index. *)
(* Timestamps (now_utc(), scheduled_at) are integers counting hours: every *)
(* timestamp the program writes is now_utc() in one fixed ISO format, for  *)
(* which SQLite's text order is the chronological order.  A nullable       *)
(* column holds NULL (the empty tuple) or <<v>>.  A message is modelled by *)
(* its length in characters.                                               *)
(***************************************************************************)
EXTENDS Integers, Sequences, FiniteSets, TLC

\* ---------------------------------------------------------------- bounds
MaxItems == 3
MaxTime == 2

\* ------------------------------------------------------------- constants
HUMAN_APPROVAL_THRESHOLD == 10
MAX_CONSECUTIVE_FAILURES == 3
MaxErrorLen == 500
MaxReasonLen == 200
VideoNotFoundLen == 23

\* publishing.min_hours_between_posts as the configuration provider returns it
min_hours == 2

NULL == <<>>
Some(v) == <<v>>

STATUS_PENDING == "pending"
STATUS_APPROVED == "approved"
STATUS_UPLOADING == "uploading"
STATUS_PUBLISHED == "published"
STATUS_FAILED == "failed"

\* rows of generated_videos (ids); video 2 does not exist
generated_videos == {1}
\* video_id arguments of add_to_queue
VideoArgs == {Some(1), Some(2), NULL}
\* scheduled_at arguments of add_to_queue
ScheduleArgs == {0, 2}
\* publish ids the platform's init response can carry: a string (an id, or
\* the default "" of init_data.get("publish_id", "")) or a JSON null
PublishIds == {Some("p1"), NULL}
\* len(str(exc)) of the errors the publisher can raise
ExcLens == {3, 650}

Min(a, b) == IF a <= b THEN a ELSE b

VARIABLES
    queue,        \* the publish_queue table
    calls,        \* calls[id]: how often publish_video was called for row id
    now,          \* the clock
    pc,           \* where the running process_queue stands
    dry_run,      \* process_queue's argument
    gate,         \* process_queue: ok, reason
    due,          \* process_queue: the ids of the fetched rows, in order
    idx,          \* process_queue: position of the loop in due
    results,      \* process_queue: results
    queue0,       \* queue when the running process_queue was called
    calls0,       \* calls when the running process_queue was called
    approved_ok,  \* the ids for which approve_item returned True
    last,         \* the step taken last: operation, arguments, return value
    prev,         \* queue before the step taken last
    other,        \* the locals of a second process_queue run that is waiting
    overlay       \* media/overlays and the last generate_overlay_frames call

vars == <<queue, calls, now, pc, dry_run, gate, due, idx, results, queue0,
          calls0, approved_ok, last, prev, other, overlay>>

Ids(q) == 1..Len(q)

\* ------------------------------------------------------------ queue store

\* add_to_queue that puts a failed row of the same video back to pending
add_to_queue_requeue(q, video_id, scheduled_at, t) ==
    IF \E i \in Ids(q) : q[i].video_id = video_id /\ q[i].status = "failed"
    THEN LET i == CHOOSE i \in Ids(q) :
                      q[i].video_id = video_id /\ q[i].status = "failed"
         IN [q EXCEPT ![i].status = "pending",
                      ![i].scheduled_at = scheduled_at,
                      ![i].updated_at = t]
    ELSE Append(q, [video_id |-> video_id,
                    scheduled_at |-> scheduled_at,
                    status |-> "pending",
                    published_at |-> <<>>,
                    external_post_id |-> <<>>,
                    error_message |-> <<>>,
                    retry_count |-> 0,
                    updated_at |-> t])

\* add_to_queue that writes no updated_at the gate could order by
add_to_queue_unstamped(q, video_id, scheduled_at, t) ==
    Append(q, [video_id |-> video_id,
               scheduled_at |-> scheduled_at,
               status |-> "pending",
               published_at |-> <<>>,
               external_post_id |-> <<>>,
               error_message |-> <<>>,
               retry_count |-> 0,
               updated_at |-> 0])

\* INSERT INTO publish_queue ... VALUES (?, ?, ?, 'pending', ?, ?)
add_to_queue(q, video_id, scheduled_at, t) ==
    Append(q, [video_id |-> video_id,
               scheduled_at |-> scheduled_at,
               status |-> STATUS_PENDING,
               published_at |-> NULL,
               external_post_id |-> NULL,
               error_message |-> NULL,
               retry_count |-> 0,
               updated_at |-> t])

\* the foreign key publish_queue.video_id -> generated_videos(id), enforced
\* by PRAGMA foreign_keys=ON: a NULL reference is accepted
fk_ok(video_id) ==
    IF video_id = NULL THEN TRUE ELSE video_id[1] \in generated_videos

\* approve_item without "AND status = 'pending'"
approve_item_any_status(q, queue_id, t) ==
    IF queue_id \in Ids(q)
    THEN [queue |-> [q EXCEPT ![queue_id].status = STATUS_APPROVED,
                              ![queue_id].updated_at = t],
          ret |-> TRUE]
    ELSE [queue |-> q, ret |-> FALSE]

\* UPDATE ... SET status = 'approved', updated_at = ? WHERE id = ? AND
\* status = 'pending'; rowcount > 0
approve_item(q, queue_id, t) ==
    IF queue_id \in Ids(q) /\ q[queue_id].status = STATUS_PENDING
    THEN [queue |-> [q EXCEPT ![queue_id].status = STATUS_APPROVED,
                              ![queue_id].updated_at = t],
          ret |-> TRUE]
    ELSE [queue |-> q, ret |-> FALSE]

\* the rows of q with a status in sts and, when timed, scheduled_at <= t, in
\* every order that is ascending in scheduled_at
SelectOrdered(q, t, sts, timed) ==
    LET sel == {i \in Ids(q) : q[i].status \in sts
                                /\ (timed => q[i].scheduled_at <= t)}
        n == Cardinality(sel)
    IN {s \in [1..n -> sel] :
          /\ \A a, b \in 1..n : a # b => s[a] # s[b]
          /\ \A a, b \in 1..n :
                a < b => q[s[a]].scheduled_at <= q[s[b]].scheduled_at}

\* get_due_items without the status filter on approval
get_due_items_with_pending(q, t) ==
    SelectOrdered(q, t, {STATUS_PENDING, STATUS_APPROVED}, TRUE)

\* get_due_items that selects failed rows again
get_due_items_with_failed(q, t) ==
    SelectOrdered(q, t, {STATUS_APPROVED, STATUS_FAILED}, TRUE)

\* get_due_items without "AND scheduled_at <= ?"
get_due_items_untimed(q, t) ==
    SelectOrdered(q, t, {STATUS_APPROVED}, FALSE)

\* get_due_items without "ORDER BY scheduled_at ASC"
get_due_items_unordered(q, t) ==
    LET dueSet == {i \in Ids(q) : q[i].status = STATUS_APPROVED
                                   /\ q[i].scheduled_at <= t}
        n == Cardinality(dueSet)
    IN {s \in [1..n -> dueSet] : \A a, b \in 1..n : a # b => s[a] # s[b]}

\* the orders in which SELECT ... WHERE status = 'approved' AND
\* scheduled_at <= now ORDER BY scheduled_at ASC can return the rows (rows
\* with equal scheduled_at come in an order SQL leaves open)
get_due_items(q, t) ==
    LET dueSet == {i \in Ids(q) : q[i].status = STATUS_APPROVED
                                   /\ q[i].scheduled_at <= t}
        n == Cardinality(dueSet)
    IN {s \in [1..n -> dueSet] :
          /\ \A a, b \in 1..n : a # b => s[a] # s[b]
          /\ \A a, b \in 1..n :
                a < b => q[s[a]].scheduled_at <= q[s[b]].scheduled_at}

\* ------------------------------------------------------------ safety gate

\* check_min_interval with now_dt > cutoff
check_min_interval_strict(q, t) ==
    \A i \in Ids(q) :
        (q[i].status = STATUS_PUBLISHED /\ q[i].published_at # NULL)
            => t > q[i].published_at[1] + min_hours

\* check_min_interval that always passes
check_min_interval_off(q, t) == TRUE

\* SELECT published_at ... WHERE status = 'published' ORDER BY published_at
\* DESC LIMIT 1, then now >= last + min_hours (NULLs sort last under DESC)
check_min_interval(q, t) ==
    LET pub == {i \in Ids(q) : q[i].status = STATUS_PUBLISHED}
        dated == {i \in pub : q[i].published_at # NULL}
    IN IF pub = {} \/ dated = {}
       THEN TRUE
       ELSE LET lastp == CHOOSE i \in dated :
                           \A j \in dated :
                              q[j].published_at[1] <= q[i].published_at[1]
            IN t >= q[lastp].published_at[1] + min_hours

\* the row sets SELECT status ... ORDER BY updated_at DESC LIMIT 3 can
\* return (rows with equal updated_at come in an order SQL leaves open)
recent_rows(q) ==
    LET n == Min(MAX_CONSECUTIVE_FAILURES, Len(q))
    IN {S \in SUBSET Ids(q) :
          /\ Cardinality(S) = n
          /\ \A i \in S : \A j \in Ids(q) \ S :
                q[i].updated_at >= q[j].updated_at}

\* check_consecutive_failures with any() for all()
check_consecutive_failures_any(q, rows) ==
    IF Cardinality(rows) < MAX_CONSECUTIVE_FAILURES
    THEN TRUE
    ELSE ~ (\E r \in rows : q[r].status = STATUS_FAILED)

\* check_consecutive_failures that never trips
check_consecutive_failures_off(q, rows) == TRUE

\* rows: the ids the query returned
check_consecutive_failures(q, rows) ==
    IF Cardinality(rows) < MAX_CONSECUTIVE_FAILURES
    THEN TRUE
    ELSE ~ (\A r \in rows : q[r].status = STATUS_FAILED)

ReasonPaused == [kind |-> "Paused: consecutive failures",
                 n |-> MAX_CONSECUTIVE_FAILURES]
ReasonTooSoon == [kind |-> "Too soon: must wait", n |-> min_hours]
ReasonOK == [kind |-> "OK", n |-> 0]

\* can_publish without the interval check
can_publish_breaker_only(q, t, rows) ==
    IF ~ check_consecutive_failures(q, rows)
    THEN [ok |-> FALSE, reason |-> ReasonPaused]
    ELSE [ok |-> TRUE, reason |-> ReasonOK]

can_publish(q, t, rows) ==
    IF ~ check_consecutive_failures(q, rows)
    THEN [ok |-> FALSE, reason |-> ReasonPaused]
    ELSE IF ~ check_min_interval(q, t)
         THEN [ok |-> FALSE, reason |-> ReasonTooSoon]
         ELSE [ok |-> TRUE, reason |-> ReasonOK]

\* ------------------------------------------------------------- publisher

\* update_queue_status that drops external_post_id and keeps retry_count
update_queue_status_lossy(q, queue_id, status, external_post_id, error_message, t) ==
    IF queue_id \notin Ids(q)
    THEN q
    ELSE IF status = STATUS_PUBLISHED
         THEN [q EXCEPT ![queue_id].status = status,
                        ![queue_id].published_at = Some(t),
                        ![queue_id].error_message = NULL,
                        ![queue_id].updated_at = t]
         ELSE IF status = STATUS_FAILED
              THEN [q EXCEPT ![queue_id].status = status,
                             ![queue_id].error_message = error_message,
                             ![queue_id].updated_at = t]
              ELSE [q EXCEPT ![queue_id].status = status,
                             ![queue_id].updated_at = t]

\* update_queue_status whose failed branch leaves error_message alone
update_queue_status_no_error(q, queue_id, status, external_post_id, error_message, t) ==
    IF queue_id \notin Ids(q)
    THEN q
    ELSE IF status = STATUS_PUBLISHED
         THEN [q EXCEPT ![queue_id].status = status,
                        ![queue_id].published_at = Some(t),
                        ![queue_id].external_post_id = external_post_id,
                        ![queue_id].error_message = NULL,
                        ![queue_id].updated_at = t]
         ELSE IF status = STATUS_FAILED
              THEN [q EXCEPT ![queue_id].status = status,
                             ![queue_id].retry_count = @ + 1,
                             ![queue_id].updated_at = t]
              ELSE [q EXCEPT ![queue_id].status = status,
                             ![queue_id].updated_at = t]

\* update_queue_status: an UPDATE keyed on the id alone
update_queue_status(q, queue_id, status, external_post_id, error_message, t) ==
    IF queue_id \notin Ids(q)
    THEN q
    ELSE IF status = STATUS_PUBLISHED
         THEN [q EXCEPT ![queue_id].status = status,
                        ![queue_id].published_at = Some(t),
                        ![queue_id].external_post_id = external_post_id,
                        ![queue_id].error_message = NULL,
                        ![queue_id].updated_at = t]
         ELSE IF status = STATUS_FAILED
              THEN [q EXCEPT ![queue_id].status = status,
                             ![queue_id].error_message = error_message,
                             ![queue_id].retry_count = @ + 1,
                             ![queue_id].updated_at = t]
              ELSE [q EXCEPT ![queue_id].status = status,
                             ![queue_id].updated_at = t]

\* str(exc)[:n]
truncate(len, n) == Min(len, n)

Result(queue_id, status, detail) ==
    [queue_id |-> queue_id, status |-> status, detail |-> detail]

\* ------------------------------------------------------------------ Init

NoGate == [ok |-> TRUE, reason |-> ReasonOK]

\* the locals of a process in which process_queue is not running
NotRunning ==
    [pc |-> "idle", dry_run |-> FALSE, gate |-> NoGate, due |-> <<>>,
     idx |-> 1, results |-> <<>>, queue0 |-> <<>>, calls0 |-> <<>>]

\* the inputs of generate_overlay_frames the timing and the layout depend
\* on: the prayer's word count, duration_sec (whole seconds), height, and
\* the line counts _wrap_text gives the verse, a prayer chunk and the CTA
Job(words, duration_sec, height, verse_lines, prayer_lines, cta_lines) ==
    [words |-> words, duration_sec |-> duration_sec, height |-> height,
     verse_lines |-> verse_lines, prayer_lines |-> prayer_lines,
     cta_lines |-> cta_lines]

\* before the first call: an empty media/overlays
NoOverlay ==
    [runs |-> 0, job |-> Job(0, 0, 0, 0, 0, 0), frames |-> <<>>, files |-> {},
     frames_before |-> <<>>, files_before |-> {}]

Init ==
    /\ overlay = NoOverlay
    /\ other = NotRunning
    /\ queue = <<>>
    /\ calls = <<>>
    /\ now = 0
    /\ pc = "idle"
    /\ dry_run = FALSE
    /\ gate = NoGate
    /\ due = <<>>
    /\ idx = 1
    /\ results = <<>>
    /\ queue0 = <<>>
    /\ calls0 = <<>>
    /\ approved_ok = {}
    /\ last = [op |-> "init"]
    /\ prev = <<>>

proc_vars == <<pc, dry_run, gate, due, idx, results, queue0, calls0>>

\* --------------------------------------------------------------- actions

\* the clock advances
Tick ==
    /\ now < MaxTime
    /\ now' = now + 1
    /\ last' = [op |-> "tick"]
    /\ prev' = queue
    /\ UNCHANGED <<queue, calls, approved_ok, proc_vars>>

AddToQueue ==
    \E v \in VideoArgs, s \in ScheduleArgs :
        /\ fk_ok(v)
        /\ queue' = add_to_queue(queue, v, s, now)
        /\ calls' = Append(calls, 0)
        /\ last' = [op |-> "add_to_queue", ret |-> Len(queue) + 1]
        /\ prev' = queue
        /\ UNCHANGED <<now, approved_ok, proc_vars>>

\* add_to_queue with a video id that is not in generated_videos: the INSERT
\* raises sqlite3.IntegrityError and no row is written
AddToQueueRejected ==
    \E v \in VideoArgs, s \in ScheduleArgs :
        /\ ~ fk_ok(v)
        /\ last' = [op |-> "add_to_queue", raised |-> "IntegrityError"]
        /\ prev' = queue
        /\ UNCHANGED <<queue, calls, now, approved_ok, proc_vars>>

ApproveItem ==
    \E id \in 1..(Len(queue) + 1) :
        LET r == approve_item(queue, id, now)
        IN /\ queue' = r.queue
           /\ approved_ok' = IF r.ret THEN approved_ok \cup {id}
                             ELSE approved_ok
           /\ last' = [op |-> "approve_item", id |-> id, ret |-> r.ret]
           /\ prev' = queue
           /\ UNCHANGED <<calls, now, proc_vars>>

\* ------------------------------------------------------- process_queue

\* the loop's next position: the following due item, or the return
Advance == IF idx + 1 > Len(due) THEN "return" ELSE "loop"

\* process_queue is called: ok, reason = can_publish(conn, db_path)
ProcessQueue_Begin ==
    \E d \in BOOLEAN, rows \in recent_rows(queue) :
        LET g == can_publish(queue, now, rows)
        IN /\ pc = "idle"
           /\ dry_run' = d
           /\ queue0' = queue
           /\ calls0' = calls
           /\ gate' = g
           /\ due' = <<>>
           /\ idx' = 1
           /\ IF g.ok
              THEN /\ pc' = "fetch"
                   /\ results' = <<>>
              ELSE /\ pc' = "return"
                   /\ results' = <<Result(NULL, "blocked", g.reason)>>
           /\ last' = [op |-> "can_publish", ok |-> g.ok,
                       reason |-> g.reason, rows |-> rows]
           /\ prev' = queue
           /\ UNCHANGED <<queue, calls, now, approved_ok>>

\* due = get_due_items(conn)
ProcessQueue_Fetch ==
    \E d \in get_due_items(queue, now) :
        /\ pc = "fetch"
        /\ due' = d
        /\ idx' = 1
        /\ IF d = <<>>
           THEN /\ pc' = "return"
                /\ results' = <<Result(NULL, "empty", "No due items.")>>
           ELSE /\ pc' = "loop"
                /\ results' = <<>>
        /\ last' = [op |-> "get_due_items", ret |-> d]
        /\ prev' = queue
        /\ UNCHANGED <<queue, calls, now, approved_ok, dry_run, gate, queue0, calls0>>

\* the video lookup taken to succeed always
video_found_always(q, id) == TRUE

\* the video row of a due item (video_id is never updated, so the value in
\* the fetched row is the stored one)
video_found(q, id) ==
    IF q[id].video_id = NULL THEN FALSE
    ELSE q[id].video_id[1] \in generated_videos

\* the interval check fails and the item is marked failed, the loop going on
ProcessQueue_Skip_MarkFailed ==
    /\ pc = "loop"
    /\ ~ check_min_interval(queue, now)
    /\ queue' = update_queue_status(queue, due[idx], STATUS_FAILED, NULL,
                                    Some(VideoNotFoundLen), now)
    /\ results' = Append(results,
                         Result(Some(due[idx]), "failed",
                                "Min interval not met."))
    /\ idx' = idx + 1
    /\ pc' = Advance
    /\ last' = [op |-> "skip", id |-> due[idx]]
    /\ prev' = queue
    /\ UNCHANGED <<calls, now, approved_ok, dry_run, gate, due, queue0, calls0>>

\* the interval check fails and the loop breaks without a result record
ProcessQueue_Skip_Unrecorded ==
    /\ pc = "loop"
    /\ ~ check_min_interval(queue, now)
    /\ pc' = "return"
    /\ last' = [op |-> "skip", id |-> due[idx]]
    /\ prev' = queue
    /\ UNCHANGED <<queue, calls, now, approved_ok, dry_run, gate, due, idx,
                   results, queue0, calls0>>

\* loop body: the interval check fails; record "skipped" and break
ProcessQueue_Skip ==
    /\ pc = "loop"
    /\ ~ check_min_interval(queue, now)
    /\ results' = Append(results,
                         Result(Some(due[idx]), "skipped",
                                "Min interval not met."))
    /\ pc' = "return"
    /\ last' = [op |-> "skip", id |-> due[idx]]
    /\ prev' = queue
    /\ UNCHANGED <<queue, calls, now, approved_ok, dry_run, gate, due, idx,
                   queue0, calls0>>

\* loop body: no generated_videos row; mark failed and continue
ProcessQueue_NotFound ==
    /\ pc = "loop"
    /\ check_min_interval(queue, now)
    /\ ~ video_found(queue, due[idx])
    /\ queue' = update_queue_status(queue, due[idx], STATUS_FAILED, NULL,
                                    Some(VideoNotFoundLen), now)
    /\ results' = Append(results,
                         Result(Some(due[idx]), "failed", "Video not found."))
    /\ idx' = idx + 1
    /\ pc' = Advance
    /\ last' = [op |-> "not_found", id |-> due[idx]]
    /\ prev' = queue
    /\ UNCHANGED <<calls, now, approved_ok, dry_run, gate, due, queue0, calls0>>

\* loop body, dry_run: record what would be published and continue
ProcessQueue_DryRun ==
    /\ pc = "loop"
    /\ check_min_interval(queue, now)
    /\ video_found(queue, due[idx])
    /\ dry_run
    /\ results' = Append(results,
                         Result(Some(due[idx]), "dry_run",
                                queue[due[idx]].video_id))
    /\ idx' = idx + 1
    /\ pc' = Advance
    /\ last' = [op |-> "dry_run", id |-> due[idx]]
    /\ prev' = queue
    /\ UNCHANGED <<queue, calls, now, approved_ok, dry_run, gate, due, queue0, calls0>>

\* loop body: update_queue_status(conn, item["id"], STATUS_UPLOADING)
ProcessQueue_Upload ==
    /\ pc = "loop"
    /\ check_min_interval(queue, now)
    /\ video_found(queue, due[idx])
    /\ ~ dry_run
    /\ queue' = update_queue_status(queue, due[idx], STATUS_UPLOADING, NULL,
                                    NULL, now)
    /\ pc' = "publishing"
    /\ last' = [op |-> "uploading", id |-> due[idx]]
    /\ prev' = queue
    /\ UNCHANGED <<calls, now, approved_ok, dry_run, gate, due, idx, results,
                   queue0, calls0>>

\* publish_video returns pub_info; the item becomes published
ProcessQueue_Published ==
    \E pid \in PublishIds :
        /\ pc = "publishing"
        /\ calls' = [calls EXCEPT ![due[idx]] = @ + 1]
        /\ queue' = update_queue_status(queue, due[idx], STATUS_PUBLISHED,
                                        pid, NULL, now)
        /\ results' = Append(results,
                             Result(Some(due[idx]), "published", pid))
        /\ idx' = idx + 1
        /\ pc' = Advance
        /\ last' = [op |-> "publish_ok", id |-> due[idx], publish_id |-> pid]
        /\ prev' = queue
        /\ UNCHANGED <<now, approved_ok, dry_run, gate, due, queue0, calls0>>

\* publish_video raises; the item is marked failed and the batch is given up
ProcessQueue_Failed_Stops ==
    \E len \in ExcLens :
        /\ pc = "publishing"
        /\ calls' = [calls EXCEPT ![due[idx]] = @ + 1]
        /\ queue' = update_queue_status(queue, due[idx], STATUS_FAILED, NULL,
                                        Some(truncate(len, MaxErrorLen)), now)
        /\ results' = Append(results,
                             Result(Some(due[idx]), "failed",
                                    truncate(len, MaxReasonLen)))
        /\ idx' = idx + 1
        /\ pc' = "return"
        /\ last' = [op |-> "publish_raised", id |-> due[idx], len |-> len]
        /\ prev' = queue
        /\ UNCHANGED <<now, approved_ok, dry_run, gate, due, queue0, calls0>>

\* publish_video raises; a failed result is recorded, the row is not written
ProcessQueue_Failed_Unrecorded ==
    \E len \in ExcLens :
        /\ pc = "publishing"
        /\ calls' = [calls EXCEPT ![due[idx]] = @ + 1]
        /\ results' = Append(results,
                             Result(Some(due[idx]), "failed",
                                    truncate(len, MaxReasonLen)))
        /\ idx' = idx + 1
        /\ pc' = Advance
        /\ last' = [op |-> "publish_raised", id |-> due[idx], len |-> len]
        /\ prev' = queue
        /\ UNCHANGED <<queue, now, approved_ok, dry_run, gate, due, queue0,
                       calls0>>

\* publish_video raises; the except branch marks the item failed
ProcessQueue_Failed ==
    \E len \in ExcLens :
        /\ pc = "publishing"
        /\ calls' = [calls EXCEPT ![due[idx]] = @ + 1]
        /\ queue' = update_queue_status(queue, due[idx], STATUS_FAILED, NULL,
                                        Some(truncate(len, MaxErrorLen)), now)
        /\ results' = Append(results,
                             Result(Some(due[idx]), "failed",
                                    truncate(len, MaxReasonLen)))
        /\ idx' = idx + 1
        /\ pc' = Advance
        /\ last' = [op |-> "publish_raised", id |-> due[idx], len |-> len]
        /\ prev' = queue
        /\ UNCHANGED <<now, approved_ok, dry_run, gate, due, queue0, calls0>>

\* return results
ProcessQueue_Return ==
    /\ pc = "return"
    /\ pc' = "idle"
    /\ last' = [op |-> "process_queue", ret |-> results, gate |-> gate,
                due |-> due, dry_run |-> dry_run, queue0 |-> queue0,
                calls0 |-> calls0]
    /\ prev' = queue
    /\ dry_run' = FALSE
    /\ gate' = NoGate
    /\ due' = <<>>
    /\ idx' = 1
    /\ results' = <<>>
    /\ queue0' = <<>>
    /\ calls0' = <<>>
    /\ UNCHANGED <<queue, calls, now, approved_ok>>

ProcessQueue ==
    \/ ProcessQueue_Begin
    \/ ProcessQueue_Fetch
    \/ ProcessQueue_Skip
    \/ ProcessQueue_NotFound
    \/ ProcessQueue_DryRun
    \/ ProcessQueue_Upload
    \/ ProcessQueue_Published
    \/ ProcessQueue_Failed
    \/ ProcessQueue_Return

\* the batch job and the operator's commands run one after another
Idle == pc = "idle"

Next ==
    \/ (Tick /\ UNCHANGED <<other, overlay>>)
    \/ (Idle /\ Len(queue) < MaxItems /\ AddToQueue
          /\ UNCHANGED <<other, overlay>>)
    \/ (Idle /\ AddToQueueRejected /\ UNCHANGED <<other, overlay>>)
    \/ (Idle /\ ApproveItem /\ UNCHANGED <<other, overlay>>)
    \/ (ProcessQueue /\ UNCHANGED <<other, overlay>>)

Spec == Init /\ [][Next]_vars

\* ------------------------------------------------- needs_human_approval

\* the rows of the publishing history
MaxHistory == 11

\* the rows of it that are not published
MaxOther == 2

\* needs_human_approval with the threshold itself still needing approval
needs_human_approval_inclusive(q) ==
    Cardinality({i \in Ids(q) : q[i].status = STATUS_PUBLISHED})
        <= HUMAN_APPROVAL_THRESHOLD

\* SELECT COUNT(*) FROM publish_queue WHERE status = 'published', compared
\* with the threshold
needs_human_approval(q) ==
    Cardinality({i \in Ids(q) : q[i].status = STATUS_PUBLISHED})
        < HUMAN_APPROVAL_THRESHOLD

HistoryStatuses ==
    {STATUS_PENDING, STATUS_APPROVED, STATUS_UPLOADING, STATUS_PUBLISHED,
     STATUS_FAILED}

\* a row of the history written as it stands: INSERT INTO publish_queue
\* (video_id, status, published_at, created_at, updated_at)
InsertRow ==
    \E st \in HistoryStatuses :
        /\ Len(queue) < MaxHistory
        /\ st # STATUS_PUBLISHED =>
              Cardinality({i \in Ids(queue) :
                             queue[i].status # STATUS_PUBLISHED}) < MaxOther
        /\ queue' = Append(queue,
                           [video_id |-> Some(1),
                            scheduled_at |-> now,
                            status |-> st,
                            published_at |-> IF st = STATUS_PUBLISHED
                                             THEN Some(now) ELSE NULL,
                            external_post_id |-> NULL,
                            error_message |-> NULL,
                            retry_count |-> 0,
                            updated_at |-> now])
        /\ calls' = Append(calls, 0)
        /\ last' = [op |-> "insert", ret |-> Len(queue) + 1]
        /\ prev' = queue
        /\ UNCHANGED <<now, approved_ok, proc_vars, other, overlay>>

NeedsHumanApproval ==
    /\ last' = [op |-> "needs_human_approval",
                ret |-> needs_human_approval(queue)]
    /\ prev' = queue
    /\ UNCHANGED <<queue, calls, now, approved_ok, proc_vars, other, overlay>>

NextApproval ==
    \/ InsertRow
    \/ NeedsHumanApproval

SpecApproval == Init /\ [][NextApproval]_vars

\* ---------------------------------------- approval during process_queue

\* the rows scheduled where commands run at the same time
MaxConcItems == 2

\* approve_cmd runs in its own process and connection: an approval may fall
\* between any two statements of a running process_queue
NextInterleaved ==
    \/ (Tick /\ UNCHANGED <<other, overlay>>)
    \/ (Idle /\ Len(queue) < MaxConcItems /\ AddToQueue /\ UNCHANGED <<other, overlay>>)
    \/ (ApproveItem /\ UNCHANGED <<other, overlay>>)
    \/ (ProcessQueue /\ UNCHANGED <<other, overlay>>)

SpecInterleaved == Init /\ [][NextInterleaved]_vars

\* ------------------------------------------- two process_queue runs

\* the scheduler passes from one publish process to the other between two
\* statements: the running process's locals are kept, the other's resume
ContextSwitch ==
    /\ ~ (pc = "idle" /\ other.pc = "idle")
    /\ other' = [pc |-> pc, dry_run |-> dry_run, gate |-> gate, due |-> due,
                 idx |-> idx, results |-> results, queue0 |-> queue0,
                 calls0 |-> calls0]
    /\ pc' = other.pc
    /\ dry_run' = other.dry_run
    /\ gate' = other.gate
    /\ due' = other.due
    /\ idx' = other.idx
    /\ results' = other.results
    /\ queue0' = other.queue0
    /\ calls0' = other.calls0
    /\ last' = [op |-> "switch"]
    /\ prev' = queue
    /\ UNCHANGED <<queue, calls, now, approved_ok, overlay>>

BothIdle == pc = "idle" /\ other.pc = "idle"

NextConcurrent ==
    \/ (BothIdle /\ Tick /\ UNCHANGED <<other, overlay>>)
    \/ (BothIdle /\ Len(queue) < MaxConcItems /\ AddToQueue /\ UNCHANGED <<other, overlay>>)
    \/ (BothIdle /\ ApproveItem /\ UNCHANGED <<other, overlay>>)
    \/ (ProcessQueue /\ UNCHANGED <<other, overlay>>)
    \/ ContextSwitch

SpecConcurrent == Init /\ [][NextConcurrent]_vars

TypeOK ==
    /\ Len(queue) <= MaxItems
    /\ Len(calls) = Len(queue)
    /\ now \in 0..MaxTime
    /\ pc \in {"idle", "fetch", "loop", "publishing", "return"}

\* ------------------------------------------------------- the gate alone

\* a gate function that stamps the rows it has read
GateCall_Stamping ==
    \E rows \in recent_rows(queue) :
        /\ queue' = [i \in Ids(queue) |->
                        IF i \in rows THEN [queue[i] EXCEPT !.updated_at = now]
                        ELSE queue[i]]
        /\ last' = [op |-> "gate", fn |-> "can_publish",
                    ret |-> can_publish(queue, now, rows).ok]
        /\ prev' = queue
        /\ UNCHANGED <<calls, now, approved_ok, proc_vars>>

\* one of the gate's functions is called on its own: each runs SELECTs only
GateCall ==
    \E rows \in recent_rows(queue) :
        \E r \in {[fn |-> "can_publish",
                   ret |-> can_publish(queue, now, rows).ok],
                  [fn |-> "check_min_interval",
                   ret |-> check_min_interval(queue, now)],
                  [fn |-> "check_consecutive_failures",
                   ret |-> check_consecutive_failures(queue, rows)],
                  [fn |-> "needs_human_approval",
                   ret |-> needs_human_approval(queue)]} :
            /\ last' = [op |-> "gate", fn |-> r.fn, ret |-> r.ret]
            /\ prev' = queue
            /\ UNCHANGED <<queue, calls, now, approved_ok, proc_vars>>

\* the commands of Next, with gate calls between them
NextGate ==
    \/ (Tick /\ UNCHANGED <<other, overlay>>)
    \/ (Idle /\ Len(queue) < MaxItems /\ AddToQueue
          /\ UNCHANGED <<other, overlay>>)
    \/ (Idle /\ ApproveItem /\ UNCHANGED <<other, overlay>>)
    \/ (ProcessQueue /\ UNCHANGED <<other, overlay>>)
    \/ (Idle /\ GateCall /\ UNCHANGED <<other, overlay>>)

SpecGate == Init /\ [][NextGate]_vars

\* ------------------------------------------------ one batch of four rows

\* the rows of the batch
MaxBatchItems == 4

\* the items are scheduled for now and approved first; the publish command
\* then runs as often as the clock allows
NextBatch ==
    \/ (Tick /\ UNCHANGED <<other, overlay>>)
    \/ (Idle /\ now = 0 /\ Len(queue) < MaxBatchItems /\ AddToQueue
          /\ queue'[Len(queue')].scheduled_at = now
          /\ UNCHANGED <<other, overlay>>)
    \/ (Idle /\ now = 0 /\ ApproveItem /\ UNCHANGED <<other, overlay>>)
    \/ (ProcessQueue /\ UNCHANGED <<other, overlay>>)

SpecBatch == Init /\ [][NextBatch]_vars

\* ------------------------------------- scheduling after a run of failures

\* the publisher returns an id or raises with a short message
PlainPublisher ==
    /\ last'.op = "publish_ok" => last'.publish_id # NULL
    /\ last'.op = "publish_raised" => \A len \in ExcLens : last'.len <= len

\* up to four rows are scheduled for now and approved at any time between
\* publish commands that are not dry runs; the clock advances between the
\* commands
NextReset ==
    \/ (Idle /\ Tick /\ UNCHANGED <<other, overlay>>)
    \/ (Idle /\ Len(queue) < MaxBatchItems /\ AddToQueue
          /\ queue'[Len(queue')].scheduled_at = now
          /\ UNCHANGED <<other, overlay>>)
    \/ (Idle /\ ApproveItem /\ UNCHANGED <<other, overlay>>)
    \/ (ProcessQueue /\ ~ dry_run' /\ PlainPublisher
          /\ UNCHANGED <<other, overlay>>)

SpecReset == Init /\ [][NextReset]_vars

\* ------------------------------------------------- generate_overlay_frames

TIKTOK_BOTTOM_SAFE_ZONE == 384
num_chunks == 4
verse_duration == 6
cta_duration == 4
margin == 60

\* the overlay calls made on one directory
MaxRuns == 3

WordCounts == {0, 1, 2, 3, 4, 7, 11, 12, 13, 150}
Durations == {8, 10, 12, 65}
Heights == {1280, 1920, 3840}
VerseLines == {1, 3, 40}
PrayerLines == {0, 1, 30}
CtaLines == {1, 2}

Jobs ==
    {Job(w, d, h, vl, pl, cl) :
        w \in WordCounts, d \in Durations, h \in Heights,
        vl \in VerseLines, pl \in PrayerLines, cl \in CtaLines}

\* the split without "last chunk gets remaining words"
prayer_chunk_no_remainder(words, i) ==
    LET words_per_chunk == words \div num_chunks
        start_idx == i * words_per_chunk
    IN [from |-> start_idx, to |-> start_idx + words_per_chunk]

\* prayer_words[start_idx:...] of chunk i (from 0): the words from, to - 1
prayer_chunk(words, i) ==
    LET words_per_chunk == words \div num_chunks
        start_idx == i * words_per_chunk
    IN IF i = num_chunks - 1
       THEN [from |-> start_idx, to |-> words]
       ELSE [from |-> start_idx, to |-> start_idx + words_per_chunk]

prayer_chunks(words) ==
    [k \in 1..num_chunks |-> prayer_chunk(words, k - 1)]

\* times are kept multiplied by num_chunks, so that chunk_duration =
\* prayer_duration / num_chunks is exact
Sec(s) == num_chunks * s

prayer_duration(duration_sec) == duration_sec - verse_duration - cta_duration

\* num_chunks * chunk_duration
chunk_duration(duration_sec) == prayer_duration(duration_sec)

start_sec(i, duration_sec) ==
    IF i = 0 THEN 0
    ELSE Sec(verse_duration) + i * chunk_duration(duration_sec)

\* end_sec without "if i == num_chunks - 1: end_sec = duration_sec"
end_sec_unpinned(i, duration_sec) ==
    Sec(verse_duration) + (i + 1) * chunk_duration(duration_sec)

end_sec(i, duration_sec) ==
    IF i = num_chunks - 1 THEN Sec(duration_sec)
    ELSE Sec(verse_duration) + (i + 1) * chunk_duration(duration_sec)

\* a file name that changes with every call
frame_path_per_run(i) == i + num_chunks * overlay.runs

\* OVERLAY_DIR / f"overlay_{i}.png", named by i
frame_path(i) == i

\* _draw_text_with_shadow at y: the rows from y to below the shadow, a glyph
\* taken as high as the font size
Text(name, y, size, shadow_offset) ==
    [name |-> name, top |-> y, bottom |-> y + size + shadow_offset]

\* what one frame draws, each element with the rows it covers
frame_elements(job) ==
    LET safe_zone_y == job.height - TIKTOK_BOTTOM_SAFE_ZONE
        y_brand == margin + 40
        y_ref == y_brand + 80
        y_verse == y_ref + 60
        y_prayer == y_verse + 50 * job.verse_lines + 60
        prayer_height == job.prayer_lines * 55 + 40
        max_prayer_bottom == safe_zone_y - 80
        shift == IF y_prayer + prayer_height > max_prayer_bottom
                 THEN y_prayer + prayer_height - max_prayer_bottom
                 ELSE 0
        prayer_box_top == y_prayer - shift
        prayer_box_bottom == y_prayer + prayer_height - shift
        cta_y == safe_zone_y - job.cta_lines * 45
    IN {Text("brand", y_brand, 52, 3), Text("verse_ref", y_ref, 52, 3)}
       \cup {Text("verse_text", y_verse + 50 * (l - 1), 42, 3) :
                l \in 1..job.verse_lines}
       \cup {[name |-> "prayer_box", top |-> prayer_box_top,
              bottom |-> prayer_box_bottom]}
       \cup {Text("prayer", prayer_box_top + 20 + 55 * (l - 1), 38, 2) :
                l \in 1..job.prayer_lines}
       \cup {Text("cta", cta_y + 45 * (l - 1), 32, 3) : l \in 1..job.cta_lines}

\* the PNG of chunk i: what is drawn, and the chunk's words
frame_image(job, i) ==
    [elements |-> frame_elements(job), chunk |-> prayer_chunk(job.words, i)]

\* the list generate_overlay_frames returns
generate_overlay_frames(job) ==
    [k \in 1..num_chunks |->
        [file_path |-> frame_path(k - 1),
         start_sec |-> start_sec(k - 1, job.duration_sec),
         end_sec |-> end_sec(k - 1, job.duration_sec),
         chunk_index |-> k - 1]]

\* img.save(frame_path, "PNG"): a file of that name is replaced
save(files, path, image) ==
    {f \in files : f.path # path} \cup {[path |-> path, image |-> image]}

RECURSIVE save_frames(_, _, _)
\* the files after the frames from i on are saved
save_frames(files, job, i) ==
    IF i >= num_chunks THEN files
    ELSE save_frames(save(files, frame_path(i), frame_image(job, i)),
                     job, i + 1)

\* generate_overlay_frames is called with job
Generate(job) ==
    overlay' = [runs |-> overlay.runs + 1,
                job |-> job,
                frames |-> generate_overlay_frames(job),
                files |-> save_frames(overlay.files, job, 0),
                frames_before |-> overlay.frames,
                files_before |-> overlay.files]

queue_vars == <<queue, calls, now, approved_ok, last, prev, proc_vars, other>>

\* the first call, on an empty directory
GenerateOverlayFrames ==
    \E job \in Jobs :
        /\ overlay.runs = 0
        /\ Generate(job)
        /\ UNCHANGED queue_vars

\* the builder is called again with identical inputs
GenerateOverlayFramesAgain ==
    /\ overlay.runs \in 1..(MaxRuns - 1)
    /\ Generate(overlay.job)
    /\ UNCHANGED queue_vars

\* generate_single_overlay: the words of chunk chunk_index
single_overlay_chunk(words, chunk_index) ==
    LET words_per_chunk == words \div num_chunks
        start_idx == chunk_index * words_per_chunk
    IN IF chunk_index = num_chunks - 1
       THEN [from |-> start_idx, to |-> words]
       ELSE [from |-> start_idx, to |-> start_idx + words_per_chunk]

\* the PNG generate_single_overlay draws
single_overlay_image(job, chunk_index) ==
    [elements |-> frame_elements(job),
     chunk |-> single_overlay_chunk(job.words, chunk_index)]

\* generate_single_overlay(..., chunk_index) for the same inputs
GenerateSingleOverlay ==
    \E chunk_index \in 0..(num_chunks - 1) :
        /\ overlay.runs \in 1..(MaxRuns - 1)
        /\ overlay' = [overlay EXCEPT
                          !.runs = @ + 1,
                          !.files = save(overlay.files,
                                         frame_path(chunk_index),
                                         single_overlay_image(overlay.job,
                                                              chunk_index)),
                          !.frames_before = overlay.frames,
                          !.files_before = overlay.files]
        /\ UNCHANGED queue_vars

NextOverlay ==
    \/ GenerateOverlayFrames
    \/ GenerateOverlayFramesAgain
    \/ GenerateSingleOverlay

SpecOverlay == Init /\ [][NextOverlay]_vars

\* ================================================================ claims

Range(f) == {f[i] : i \in DOMAIN f}

\* the 3 rows the gate looked at are all failed
Tripped(q, rows) ==
    /\ Cardinality(rows) = 3
    /\ \A r \in rows : q[r].status = "failed"

\* some published row was published less than min_hours before t
TooSoon(q, t) ==
    \E i \in Ids(q) :
        /\ q[i].status = "published"
        /\ q[i].published_at # NULL
        /\ t < q[i].published_at[1] + min_hours

\* C1: approve_item(id) returns true and sets the status to approved iff the
\* item exists and is pending; in every other case it returns false and
\* leaves the table as it was, so a second approve is a no-op.
C1_ApproveIffPending ==
    last.op = "approve_item" =>
        LET id == last.id
            wasPending == IF id \in Ids(prev)
                          THEN prev[id].status = "pending" ELSE FALSE
        IN /\ last.ret = wasPending
           /\ last.ret =>
                /\ queue[id].status = "approved"
                /\ \A j \in Ids(prev) : j # id => queue[j] = prev[j]
                /\ Len(queue) = Len(prev)
           /\ ~ last.ret => queue = prev

\* C1 witness: a second approve of an item approved before returned false
C1_Witness ==
    /\ last.op = "approve_item"
    /\ last.ret = FALSE
    /\ last.id \in approved_ok
    /\ queue[last.id].status = "approved"
    /\ queue = prev

\* C2: an item is uploading, published or failed, or was passed to the
\* publisher, only if approve_item returned true for it before; a running
\* process_queue leaves every item that was pending at its call unchanged.
C2_NoPublishWithoutApproval ==
    /\ \A i \in Ids(queue) :
          (queue[i].status \in {"uploading", "published", "failed"}
             \/ calls[i] > 0) => i \in approved_ok
    /\ pc # "idle" =>
          \A i \in Ids(queue0) :
              queue0[i].status = "pending" =>
                  queue[i] = queue0[i] /\ calls[i] = calls0[i]

\* C2 witness: a run has published one item and passed over a pending one
C2_Witness ==
    /\ pc = "return"
    /\ \E i, j \in Ids(queue) :
          /\ queue[i].status = "published" /\ queue0[i].status = "approved"
          /\ queue[j].status = "pending" /\ queue[j].scheduled_at <= now

\* the status changes of the graph pending -> approved -> uploading ->
\* {published | failed}
GraphEdges ==
    {<<"pending", "approved">>, <<"approved", "uploading">>,
     <<"uploading", "published">>, <<"uploading", "failed">>}

StepsFollow(edges) ==
    /\ Len(queue) >= Len(prev)
    /\ \A i \in Ids(queue) :
          IF i \in Ids(prev)
          THEN queue[i].status # prev[i].status
                  => <<prev[i].status, queue[i].status>> \in edges
          ELSE queue[i].status = "pending"

\* C3 as stated: every status change is an edge of the graph
C3_Original == StepsFollow(GraphEdges)

\* C3 (amended): every status change is an edge of the graph or the edge
\* approved -> failed, which is taken only when the item's video record is
\* not found; items are created pending, nothing re-enters pending, and
\* published and failed have no outgoing edge.
C3_StatusGraph ==
    /\ StepsFollow(GraphEdges \cup {<<"approved", "failed">>})
    /\ \A i \in Ids(prev) :
          (prev[i].status = "approved" /\ queue[i].status = "failed")
              => (last.op = "not_found" /\ last.id = i
                    /\ ~ video_found(queue, i))

\* C3 witness: a due item without a video record went from approved to failed
C3_Witness ==
    /\ last.op = "not_found"
    /\ prev[last.id].status = "approved"
    /\ queue[last.id].status = "failed"

\* C4: when the gate is closed at the start of process_queue (breaker tripped
\* or last publish less than min_hours ago), process_queue returns exactly
\* one blocked result with the gate's reason, never calls the publisher and
\* leaves every row unchanged.
C4_BlockedTouchesNothing ==
    /\ (last.op = "can_publish"
          /\ (Tripped(queue, last.rows) \/ TooSoon(queue, now))) =>
          /\ pc = "return"
          /\ results = <<[queue_id |-> NULL, status |-> "blocked",
                          detail |-> IF Tripped(queue, last.rows)
                                     THEN ReasonPaused ELSE ReasonTooSoon]>>
          /\ queue = queue0 /\ queue = prev
          /\ calls = calls0
    /\ (last.op = "process_queue" /\ ~ last.gate.ok) =>
          /\ last.ret = <<[queue_id |-> NULL, status |-> "blocked",
                           detail |-> last.gate.reason]>>
          /\ queue = last.queue0
          /\ calls = last.calls0

\* C4 witness: a blocked run returned while a due approved item waits
C4_Witness ==
    /\ last.op = "process_queue"
    /\ ~ last.gate.ok
    /\ Len(last.ret) = 1
    /\ \E i \in Ids(queue) :
          queue[i].status = "approved" /\ queue[i].scheduled_at <= now

\* the rows are 3 (or all, when fewer exist) rows of greatest updated_at
MostRecent(q, rows) ==
    /\ rows \subseteq Ids(q)
    /\ Cardinality(rows) = IF Len(q) < 3 THEN Len(q) ELSE 3
    /\ \A i \in rows : \A j \in Ids(q) \ rows :
          q[i].updated_at >= q[j].updated_at

\* C5: can_publish() returns (false, "Paused: ... consecutive failures") iff
\* at least 3 rows exist and the 3 rows of greatest updated_at are all
\* failed; otherwise the breaker does not block, and can_publish() returns
\* (true, "OK") when the interval does not block either.
C5_Breaker ==
    last.op = "can_publish" =>
        /\ MostRecent(queue, last.rows)
        /\ (~ last.ok /\ last.reason = ReasonPaused)
              <=> (Len(queue) >= 3 /\ Tripped(queue, last.rows))
        /\ (~ Tripped(queue, last.rows) /\ ~ TooSoon(queue, now))
              => (last.ok /\ last.reason = ReasonOK)

\* C5 witness: the gate paused on three failed rows
C5_Witness ==
    /\ last.op = "can_publish"
    /\ ~ last.ok
    /\ last.reason.kind = "Paused: consecutive failures"
    /\ Tripped(queue, last.rows)

\* C6: the interval check passes iff no published item exists or
\* now >= P + min_hours for the greatest published_at P (the instant
\* now = P + min_hours passes); with the breaker not tripped, can_publish()
\* returns (false, "Too soon: must wait <min_hours>h") when it fails and
\* (true, "OK") when it passes.  The loop's re-check decides the same way.
C6_MinInterval ==
    /\ last.op = "can_publish" =>
          /\ (~ Tripped(queue, last.rows) /\ TooSoon(queue, now))
                => (~ last.ok /\ last.reason.kind = "Too soon: must wait"
                      /\ last.reason.n = min_hours)
          /\ (~ Tripped(queue, last.rows) /\ ~ TooSoon(queue, now))
                => (last.ok /\ last.reason = ReasonOK)
    /\ last.op = "skip" => TooSoon(queue, now)
    /\ last.op \in {"not_found", "dry_run", "uploading"} => ~ TooSoon(prev, now)

\* C6 witness: the gate opened at exactly published_at + min_hours
C6_Witness ==
    /\ last.op = "can_publish"
    /\ last.ok
    /\ \E i \in Ids(queue) :
          /\ queue[i].status = "published"
          /\ now = queue[i].published_at[1] + min_hours

\* C7: for a due approved item whose video exists, with the gate open and a
\* publisher call that succeeds, process_queue moves the item approved ->
\* uploading -> published, sets published_at to the current time, stores the
\* publisher's post id, leaves error_message null and retry_count unchanged,
\* and records a published result carrying that post id.
C7_SuccessPath ==
    /\ last.op = "uploading" =>
          /\ prev[last.id].status = "approved"
          /\ prev[last.id].scheduled_at <= now
          /\ gate.ok
          /\ queue[last.id] = [prev[last.id] EXCEPT !.status = "uploading",
                                                    !.updated_at = now]
    /\ last.op = "publish_ok" =>
          LET id == last.id
          IN /\ prev[id].status = "uploading"
             /\ queue0[id].status = "approved"
             /\ queue[id].status = "published"
             /\ queue[id].published_at = Some(now)
             /\ queue[id].external_post_id = last.publish_id
             /\ queue[id].error_message = NULL
             /\ queue[id].retry_count = queue0[id].retry_count
             /\ results[Len(results)] =
                   [queue_id |-> Some(id), status |-> "published",
                    detail |-> last.publish_id]

\* C7 witness: an item was published with the post id p1
C7_Witness ==
    /\ last.op = "publish_ok"
    /\ last.publish_id = Some("p1")
    /\ queue[last.id].external_post_id = Some("p1")
    /\ queue[last.id].status = "published"

\* C8: when the publisher raises for an uploading item, process_queue moves
\* it to failed, adds exactly 1 to retry_count, stores an error_message of at
\* most 500 characters, leaves published_at and external_post_id null, goes
\* on normally (the exception does not propagate) and calls the publisher for
\* that item once in the invocation.
C8_FailurePath ==
    /\ last.op = "publish_raised" =>
          LET id == last.id
          IN /\ prev[id].status = "uploading"
             /\ queue[id].status = "failed"
             /\ queue[id].retry_count = prev[id].retry_count + 1
             /\ queue[id].error_message # NULL
             /\ queue[id].error_message[1] <= 500
             /\ queue[id].error_message[1] <= last.len
             /\ queue[id].published_at = NULL
             /\ queue[id].external_post_id = NULL
             /\ pc \in {"loop", "return"}
             /\ results[Len(results)].queue_id = Some(id)
             /\ results[Len(results)].status = "failed"
             /\ calls[id] = calls0[id] + 1
    /\ pc # "idle" => \A i \in Ids(queue0) : calls[i] <= calls0[i] + 1

\* C8 witness: a 650-character error was stored cut to 500 characters
C8_Witness ==
    /\ last.op = "publish_raised"
    /\ last.len = 650
    /\ queue[last.id].error_message = Some(500)
    /\ queue[last.id].retry_count = 1

\* C9: published_at is non-null iff status = published, and external_post_id
\* is non-null iff status = published, for every item in every state.
C9_PublishedFieldsIff ==
    \A i \in Ids(queue) :
        /\ queue[i].published_at # NULL <=> queue[i].status = "published"
        /\ queue[i].external_post_id # NULL <=> queue[i].status = "published"

\* C10: process_queue selects an item iff it is approved and its
\* scheduled_at <= now at the call; an item that is not selected is never
\* modified by process_queue and never passed to the publisher.
C10_OnlyDueItems ==
    /\ last.op = "get_due_items" =>
          /\ Range(last.ret) =
                {i \in Ids(queue) : queue[i].status = "approved"
                                     /\ queue[i].scheduled_at <= now}
          /\ Len(last.ret) = Cardinality(Range(last.ret))
          /\ due = last.ret
    /\ pc # "idle" =>
          /\ Len(queue) = Len(queue0)
          /\ \A i \in Ids(queue0) :
                (queue[i] # queue0[i] \/ calls[i] # calls0[i]) =>
                    /\ i \in Range(due)
                    /\ queue0[i].status = "approved"
                    /\ queue0[i].scheduled_at <= now

\* C10 witness: a run published a due item and left an approved item that is
\* scheduled later as it was
C10_Witness ==
    /\ pc = "return"
    /\ \E i, j \in Ids(queue) :
          /\ queue[i].status = "published" /\ queue0[i].status = "approved"
          /\ queue[j].status = "approved" /\ queue[j].scheduled_at > now
          /\ queue[j] = queue0[j]


\* the positions of due the loop has gone through: a result is recorded
Reached == 1..Len(results)

\* results is the list of per-item records (not the blocked or empty marker)
ItemResults == results # <<>> /\ results[1].queue_id # NULL

\* C11: within one process_queue invocation the due items are handled in
\* ascending scheduled_at order: of two handled items the one scheduled
\* earlier is handled first, an item is handled only after every item before
\* it, and the result list follows the same order.
C11_AscendingOrder ==
    (pc \in {"loop", "publishing", "return"} /\ Len(due) > 0) =>
        /\ \A a, b \in 1..Len(due) :
              queue0[due[a]].scheduled_at < queue0[due[b]].scheduled_at
                  => a < b
        /\ \A k \in 1..Len(due) :
              (queue[due[k]] # queue0[due[k]] \/ k \in Reached)
                  => \A j \in 1..(k - 1) : j \in Reached
        /\ \A k \in Reached : results[k].queue_id = Some(due[k])

\* C11 witness: a run handled two items with different scheduled_at
C11_Witness ==
    /\ pc = "return"
    /\ Len(results) = 2
    /\ Len(due) >= 2
    /\ queue[due[1]].scheduled_at < queue[due[2]].scheduled_at
    /\ results[2].queue_id = Some(due[2])

\* C12: the interval check is made before each due item; when it fails for
\* item k the loop stops: item k and every later due item stay approved with
\* all fields unchanged, none is marked failed, the publisher is not called
\* for them, and they are still due.
C12_StopsAtInterval ==
    /\ last.op \in {"not_found", "dry_run", "uploading"} => ~ TooSoon(prev, now)
    /\ (pc = "loop" /\ TooSoon(queue, now) /\ ItemResults) =>
          results[Len(results)].status = "published"
    /\ last.op = "skip" =>
          /\ pc = "return"
          /\ TooSoon(queue, now)
          /\ idx <= Len(due)
          /\ due[idx] = last.id
          /\ results[Len(results)] =
                [queue_id |-> Some(last.id), status |-> "skipped",
                 detail |-> "Min interval not met."]
    /\ (pc = "return" /\ ItemResults
          /\ results[Len(results)].status = "skipped") =>
          \A k \in Len(results)..Len(due) :
              /\ queue[due[k]] = queue0[due[k]]
              /\ queue[due[k]].status = "approved"
              /\ queue[due[k]].scheduled_at <= now
              /\ calls[due[k]] = calls0[due[k]]

\* C12 witness: item k-1 was published in this batch and item k stopped it
C12_Witness ==
    /\ last.op = "skip"
    /\ idx >= 2
    /\ queue[due[idx - 1]].status = "published"
    /\ queue[due[idx - 1]].published_at = Some(now)
    /\ queue[due[idx]].status = "approved"

\* C13: when a due item's video record cannot be resolved, process_queue
\* moves it from approved straight to failed with the "Video record not
\* found." message, never calls the publisher for it, records a failed result
\* and goes on with the next due item.
C13_VideoNotFound ==
    /\ last.op = "not_found" =>
          LET id == last.id
          IN /\ ~ video_found(queue, id)
             /\ prev[id].status = "approved"
             /\ queue[id].status = "failed"
             /\ queue[id].error_message = Some(VideoNotFoundLen)
             /\ calls[id] = 0
             /\ results[Len(results)] =
                   [queue_id |-> Some(id), status |-> "failed",
                    detail |-> "Video not found."]
             /\ idx = Len(results) + 1
             /\ pc = (IF idx <= Len(due) THEN "loop" ELSE "return")
    /\ \A i \in Ids(queue) :
          (queue[i].video_id = NULL) =>
              /\ calls[i] = 0
              /\ queue[i].status \in {"pending", "approved", "failed"}

\* C13 witness: an item without a video failed and the loop went on
C13_Witness ==
    /\ last.op = "not_found"
    /\ pc = "loop"
    /\ queue[last.id].status = "failed"
    /\ idx <= Len(due)

\* C14: process_queue(dry_run=True) changes no queue row and never calls the
\* publisher, whatever the queue holds.
C14_DryRunChangesNothing ==
    (pc # "idle" /\ dry_run) => (queue = queue0 /\ calls = calls0)

\* C15: the publisher is called at most once per queue item, and an item
\* that failed or was attempted is never selected by process_queue again.
C15_PublishAtMostOnce ==
    /\ \A i \in Ids(queue) : calls[i] <= 1
    /\ last.op = "get_due_items" =>
          \A k \in 1..Len(last.ret) :
              /\ calls[last.ret[k]] = 0
              /\ queue[last.ret[k]].retry_count = 0
              /\ queue[last.ret[k]].status # "failed"
    /\ pc = "publishing" => calls[due[idx]] = 0

\* C15 witness: a later invocation fetched due items and left out a due item
\* that had failed at the publisher
C15_Witness ==
    /\ last.op = "get_due_items"
    /\ last.ret # <<>>
    /\ \E i \in Ids(queue) :
          /\ queue[i].status = "failed"
          /\ calls[i] = 1
          /\ queue[i].scheduled_at <= now
          /\ i \notin Range(last.ret)

\* what a result status says happened to row i
Outcome(r, q, q0, i) ==
    IF r.status = "published" THEN q[i].status = "published"
    ELSE IF r.status = "failed" THEN q[i].status = "failed"
    ELSE IF r.status \in {"skipped", "dry_run"} THEN q[i] = q0[i]
    ELSE FALSE

\* C16: process_queue returns either exactly one marker record with a null
\* queue_id (blocked or empty), or one record per due item it reached, in
\* processing order, each with the item's queue_id and a status equal to what
\* happened to the item; the items after the last record are untouched.
C16_ReturnShape ==
    last.op = "process_queue" =>
        LET ret == last.ret
            d == last.due
        IN /\ Len(ret) >= 1
           /\ IF ret[1].queue_id = NULL
              THEN /\ Len(ret) = 1
                   /\ ret[1].status \in {"blocked", "empty"}
                   /\ ret[1].status = "blocked" <=> ~ last.gate.ok
                   /\ ret[1].status = "empty" => d = <<>>
                   /\ queue = last.queue0
              ELSE /\ last.gate.ok
                   /\ Len(ret) <= Len(d)
                   /\ \A k \in 1..Len(ret) :
                         /\ ret[k].queue_id = Some(d[k])
                         /\ Outcome(ret[k], queue, last.queue0, d[k])
                         /\ ret[k].status = "skipped" => k = Len(ret)
                   /\ ret[Len(ret)].status # "skipped" => Len(ret) = Len(d)
                   /\ \A k \in (Len(ret) + 1)..Len(d) :
                         queue[d[k]] = last.queue0[d[k]]

\* C16 witness: a run returned a failed record and a published record
C16_Witness ==
    /\ last.op = "process_queue"
    /\ Len(last.ret) = 2
    /\ last.ret[1].status = "failed"
    /\ last.ret[2].status = "published"


\* C20: in every state reached through add_to_queue, approve_item and
\* process_queue run one after the other, an item's error_message is
\* non-null exactly when its status is failed; it is null for pending,
\* approved, uploading and published items.
C20_ErrorMessageIffFailed ==
    \A i \in Ids(queue) :
        (queue[i].error_message # NULL) <=> (queue[i].status = "failed")

\* C20 witness: one item failed with a message next to a published item and
\* an item not yet attempted, both without one
C20_Witness ==
    \E i, j, k \in Ids(queue) :
        /\ queue[i].status = "failed"
        /\ queue[i].error_message # NULL
        /\ queue[j].status = "published"
        /\ queue[j].error_message = NULL
        /\ queue[k].status \in {"pending", "approved", "uploading"}
        /\ queue[k].error_message = NULL


RECURSIVE CountPublished(_)
\* the published rows of q, counted row by row
CountPublished(q) ==
    IF q = <<>> THEN 0
    ELSE CountPublished(Tail(q))
         + (IF Head(q).status = "published" THEN 1 ELSE 0)

\* C17: needs_human_approval() returns true exactly when fewer than 10 rows
\* have status published: true for 0..9 published rows, false from 10 on,
\* and rows in any other status do not count.
C17_NeedsHumanApproval ==
    last.op = "needs_human_approval" =>
        /\ last.ret <=> CountPublished(queue) < 10
        /\ CountPublished(queue) \in 0..9 => last.ret = TRUE
        /\ CountPublished(queue) >= 10 => last.ret = FALSE

\* C17 witness: ten published rows and a row in another status: no approval
\* is needed any more
C17_Witness ==
    /\ last.op = "needs_human_approval"
    /\ last.ret = FALSE
    /\ CountPublished(queue) = 10
    /\ Len(queue) = 11


\* no publisher call is made twice for one row
NoDoublePublish == \A i \in Ids(queue) : calls[i] <= 1

\* no step moves a row out of published or failed
TerminalKept ==
    \A i \in Ids(prev) :
        prev[i].status \in {"published", "failed"}
            => queue[i].status = prev[i].status

\* C18: the processor's writes (-> uploading, -> published, -> failed) take
\* effect only if the row still has the expected prior status, so that when
\* two process_queue runs interleave no item is moved out of published or
\* failed and no item is published twice.
C18_ConditionalUpdates == NoDoublePublish /\ TerminalKept


\* the steps of process_queue that write a row
WritingSteps ==
    {"not_found", "uploading", "publish_ok", "publish_raised"}

\* the steps of process_queue that write nothing
ReadingSteps ==
    {"can_publish", "get_due_items", "skip", "dry_run", "process_queue"}

\* C19: an approve_item call that falls between any two steps of a running
\* process_queue changes a row only from pending to approved, so it never
\* changes an item the processor has moved to uploading, published or
\* failed; the processor writes only the due item it stands on and leaves
\* every other row, an approval made during its run included, as it is; an
\* item approved during the run is picked up by the first fetch after the
\* approval once due: the running invocation's own fetch when the approval
\* falls between its gate check and its fetch, the next invocation's
\* otherwise.
C19_ApprovalInterleaved ==
    /\ last.op = "approve_item" =>
          IF last.id \in Ids(prev) /\ prev[last.id].status = "pending"
          THEN /\ last.ret
               /\ queue = [prev EXCEPT ![last.id].status = "approved",
                                       ![last.id].updated_at = now]
          ELSE /\ ~ last.ret
               /\ queue = prev
    /\ last.op \in WritingSteps =>
          /\ last.id \in Range(due)
          /\ prev[last.id].status \in {"approved", "uploading"}
          /\ \A i \in Ids(prev) \ {last.id} : queue[i] = prev[i]
    /\ last.op \in ReadingSteps => queue = prev
    /\ \A i \in approved_ok : queue[i].status # "pending"
    /\ pc \in {"loop", "publishing", "return"} =>
          \A i \in Ids(queue) \ Range(due) :
              \/ queue[i] = queue0[i]
              \/ /\ queue0[i].status = "pending"
                 /\ queue[i] = [queue0[i] EXCEPT
                                   !.status = "approved",
                                   !.updated_at = queue[i].updated_at]
    /\ last.op = "get_due_items" =>
          Range(last.ret) = {i \in Ids(queue) :
                                /\ queue[i].status = "approved"
                                /\ queue[i].scheduled_at <= now}

\* C19 witness: while the publisher is at work on one item, another item is
\* approved
C19_Witness ==
    /\ last.op = "approve_item"
    /\ last.ret
    /\ pc = "publishing"
    /\ queue[due[idx]].status = "uploading"
    /\ last.id \notin Range(due)
    /\ queue[last.id].status = "approved"


\* the running invocation handles only items that were approved when it was
\* called
DueApprovedAtCall ==
    pc \in {"loop", "publishing", "return"} =>
        \A i \in Range(due) : queue0[i].status = "approved"

\* C19 as stated: the same, with every item approved during the run left to
\* the next invocation.
C19_Original == C19_ApprovalInterleaved /\ DueApprovedAtCall


\* C21: an item's retry_count never decreases and changes only on a
\* transition to failed, then by exactly 1; add_to_queue, approve_item, the
\* transition to uploading and the transition to published leave it as it
\* is, and a new row starts at 0.
C21_RetryCount ==
    /\ \A i \in Ids(prev) :
          /\ queue[i].retry_count >= prev[i].retry_count
          /\ queue[i].retry_count # prev[i].retry_count =>
                /\ queue[i].status = "failed"
                /\ prev[i].status # "failed"
                /\ queue[i].retry_count = prev[i].retry_count + 1
          /\ (queue[i].status = "failed" /\ prev[i].status # "failed") =>
                queue[i].retry_count = prev[i].retry_count + 1
    /\ \A i \in Ids(queue) \ Ids(prev) : queue[i].retry_count = 0
    /\ last.op \in {"add_to_queue", "approve_item", "uploading", "publish_ok"}
          => \A i \in Ids(prev) : queue[i].retry_count = prev[i].retry_count

\* C21 witness: a publisher error has just raised an item's retry_count from
\* 0 to 1 while a published item keeps 0
C21_Witness ==
    /\ last.op = "publish_raised"
    /\ prev[last.id].retry_count = 0
    /\ queue[last.id].retry_count = 1
    /\ \E j \in Ids(queue) :
          queue[j].status = "published" /\ queue[j].retry_count = 0


\* ------------------------------------------------------- overlay claims

\* a job with a non-empty prayer and a positive duration has been built
Built ==
    overlay.runs >= 1 /\ overlay.job.words >= 1 /\ overlay.job.duration_sec > 0

RECURSIVE SumWindows(_)
\* the sum of end_sec - start_sec over the frames fs
SumWindows(fs) ==
    IF fs = <<>> THEN 0
    ELSE (Head(fs).end_sec - Head(fs).start_sec) + SumWindows(Tail(fs))

\* the words of the chunk drawn into frame k
WordsOf(k) ==
    LET f == CHOOSE f \in overlay.files : f.path = overlay.frames[k].file_path
    IN f.image.chunk.to - f.image.chunk.from

\* C22: for a job with a non-empty prayer text and duration D > 0 the first
\* frame starts at 0, the last frame ends at D exactly, and the frames'
\* windows add up to D.
C22_TimelineBoundaries ==
    Built =>
        LET fs == overlay.frames
        IN /\ Len(fs) >= 1
           /\ fs[1].start_sec = 0
           /\ fs[Len(fs)].end_sec = Sec(overlay.job.duration_sec)
           /\ SumWindows(fs) = Sec(overlay.job.duration_sec)

\* C22 witness: 150 words at 65 s have been built
C22_Witness ==
    /\ Built
    /\ overlay.job.words = 150
    /\ overlay.job.duration_sec = 65
    /\ overlay.frames[Len(overlay.frames)].end_sec = Sec(65)

\* C23: a prayer of W >= 1 words is split into consecutive groups of exactly
\* 3 words, the last group taking the remaining 1 to 3 words, and the
\* builder returns ceil(W/3) frames, one per group.
C23_ThreeWordChunks ==
    Built =>
        LET fs == overlay.frames
            W == overlay.job.words
        IN /\ Len(fs) = (W + 2) \div 3
           /\ \A k \in 1..Len(fs) :
                 IF k < Len(fs) THEN WordsOf(k) = 3 ELSE WordsOf(k) \in 1..3

\* C24: frame i with w_i of the W prayer words lasts D * w_i / W, and starts
\* at the sum of the durations of the frames before it.
C24_ProportionalTiming ==
    Built =>
        LET fs == overlay.frames
            W == overlay.job.words
        IN \A k \in 1..Len(fs) :
              /\ (fs[k].end_sec - fs[k].start_sec) * W
                    = Sec(overlay.job.duration_sec) * WordsOf(k)
              /\ fs[k].start_sec = SumWindows(SubSeq(fs, 1, k - 1))

\* C25: the frames of a job come in chunk_index order 0, 1, ..., n-1, each
\* frame ends where the next one starts, and the windows partition [0, D)
\* without gap or overlap.
C25_ContiguousPartition ==
    Built =>
        LET fs == overlay.frames
        IN /\ \A k \in 1..Len(fs) : fs[k].chunk_index = k - 1
           /\ \A k \in 1..(Len(fs) - 1) : fs[k].end_sec = fs[k + 1].start_sec
           /\ \A a, b \in 1..Len(fs) :
                 a < b => fs[a].end_sec <= fs[b].start_sec

\* C26: every frame of a job with D > 0 and a non-empty prayer has a
\* non-empty window: start_sec >= 0 and end_sec > start_sec.
C26_NonEmptyWindows ==
    Built =>
        \A k \in 1..Len(overlay.frames) :
            /\ overlay.frames[k].start_sec >= 0
            /\ overlay.frames[k].end_sec > overlay.frames[k].start_sec

\* about 10% of the height
TOP_SAFE_ZONE(height) == height \div 10

\* 20% of the height: 384 of 1920, scaled
BOTTOM_SAFE_ZONE(height) == (384 * height) \div 1920

\* C27: in every generated frame, at every supported height, no element
\* with its shadow is drawn above TOP_SAFE_ZONE or at or below
\* height - BOTTOM_SAFE_ZONE.
C27_SafeZones ==
    overlay.runs >= 1 =>
        \A f \in overlay.files : \A e \in f.image.elements :
            /\ e.top >= TOP_SAFE_ZONE(overlay.job.height)
            /\ e.bottom <= overlay.job.height
                             - BOTTOM_SAFE_ZONE(overlay.job.height)

\* C28: a frame's file is named by its chunk index alone, so a second call
\* with identical inputs returns the same frame list, writes the same paths
\* and leaves the same files as the first one: none is added.
C28_Idempotent ==
    /\ overlay.runs >= 1 =>
          /\ \A k \in 1..Len(overlay.frames) :
                overlay.frames[k].file_path
                    = frame_path(overlay.frames[k].chunk_index)
          /\ {f.path : f \in overlay.files}
                = {overlay.frames[k].file_path : k \in 1..Len(overlay.frames)}
    /\ overlay.runs >= 2 =>
          /\ overlay.frames = overlay.frames_before
          /\ overlay.files = overlay.files_before

\* C28 witness: the builder ran twice on the same inputs and the directory
\* holds one file per frame
C28_Witness ==
    /\ overlay.runs = 2
    /\ overlay.frames # <<>>
    /\ overlay.frames = overlay.frames_before
    /\ Cardinality(overlay.files) = Len(overlay.frames)


\* ---------------------------------------------------------- batch claims

\* whichever rows the query picks as the 3 most recently updated, all are
\* failed
AllRecentFailed(q) == \A rows \in recent_rows(q) : Tripped(q, rows)

\* the results recorded so far are all failures
AllFailedSoFar == \A k \in 1..Len(results) : results[k].status = "failed"

\* C29: the breaker is evaluated once per process_queue invocation, at the
\* gate, and the interval once per item: after a due item fails (publisher
\* error or video not found) the loop goes on to the next due item, only
\* the interval check stops it, and an invocation that was not stopped by
\* the interval has reached every due item, however many items failed.
C29_BatchContinuesAfterFailure ==
    /\ last.op \in {"publish_raised", "not_found"} =>
          /\ idx = Len(results) + 1
          /\ pc = (IF idx <= Len(due) THEN "loop" ELSE "return")
    /\ last.op = "skip" => TooSoon(queue, now)
    /\ (pc = "return" /\ ItemResults
          /\ results[Len(results)].status # "skipped") =>
          Len(results) = Len(due)
    /\ (pc \in {"loop", "publishing"} /\ AllFailedSoFar) =>
          ~ TooSoon(queue, now) \/ TooSoon(queue0, now)
    /\ pc \in {"fetch", "loop", "publishing"} => gate.ok

\* C29 witness: three items of the batch have failed, the three most
\* recently updated rows are all failed, and the fourth item is attempted
C29_Witness ==
    /\ last.op = "uploading"
    /\ idx = 4
    /\ Len(results) = 3
    /\ AllFailedSoFar
    /\ AllRecentFailed(prev)
    /\ queue[due[4]].status = "uploading"

\* C30: process_queue never starts publishing in an invocation at whose gate
\* check the 3 most recently updated rows were all failed: such an
\* invocation returns the blocked marker and writes nothing.  Within an
\* invocation the breaker is not evaluated again, so an attempt can start
\* while the 3 most recently updated rows are all failed.
C30_BreakerAtGate ==
    /\ (last.op = "can_publish" /\ Tripped(queue, last.rows)) =>
          /\ pc = "return"
          /\ results = <<Result(NULL, "blocked", ReasonPaused)>>
          /\ queue = prev
    /\ pc \in {"fetch", "loop", "publishing"} =>
          /\ gate.ok
          /\ ~ AllRecentFailed(queue0) \/ Len(queue0) < 3
    /\ last.op = "uploading" =>
          ~ AllRecentFailed(queue0) \/ Len(queue0) < 3

\* C30 witness: three failed rows are the most recent ones and the gate has
\* blocked the invocation
C30_Witness ==
    /\ last.op = "can_publish"
    /\ Len(queue) = 4
    /\ AllRecentFailed(queue)
    /\ pc = "return"
    /\ results[1].status = "blocked"

\* C30 as stated: no publish attempt starts at a moment when the 3 most
\* recently updated rows are all failed.
C30_Original ==
    last.op = "uploading" => ~ AllRecentFailed(prev)


\* ----------------------------------------------------- behaviour claims

\* C31: the gate is read-only: a call of can_publish, check_min_interval,
\* check_consecutive_failures or needs_human_approval, on its own or at the
\* start of process_queue, leaves every queue row as it was (status,
\* timestamps, retry_count), so the operations after it find the queue they
\* would have found without the call.
C31_GateReadOnly ==
    /\ last.op = "gate" =>
          /\ queue = prev
          /\ pc = "idle"
    /\ last.op = "can_publish" =>
          /\ queue = prev
          /\ queue = queue0
          /\ calls = calls0

\* C31 witness: the gate, called on its own, refused on a queue that holds
\* a published and a failed row
C31_Witness ==
    /\ last.op = "gate"
    /\ last.fn = "can_publish"
    /\ ~ last.ret
    /\ \E i, j \in Ids(queue) :
          queue[i].status = "published" /\ queue[j].status = "failed"


\* add_to_queue has just returned a new id
Added == last.op = "add_to_queue" /\ "ret" \in DOMAIN last

\* C32: add_to_queue for the video of a failed item creates a new item (new
\* id, status pending, retry_count 0, no error_message, no published_at)
\* and leaves the failed item, like every other row, unchanged; the new
\* item is approved and processed on its own.
C32_RetryByFreshItem ==
    /\ Added =>
          /\ Len(queue) = Len(prev) + 1
          /\ last.ret = Len(queue)
          /\ \A i \in Ids(prev) : queue[i] = prev[i]
          /\ queue[last.ret].status = "pending"
          /\ queue[last.ret].retry_count = 0
          /\ queue[last.ret].error_message = NULL
          /\ queue[last.ret].published_at = NULL
          /\ queue[last.ret].external_post_id = NULL
    /\ \A i \in Ids(prev) :
          (prev[i].status = "failed" /\ last.op # "init") => queue[i] = prev[i]

\* C32 witness: an item failed, a second item for the same video was
\* scheduled after it and has been published, the failed one is as it was
C32_Witness ==
    \E i, j \in Ids(queue) :
        /\ i < j
        /\ queue[i].video_id = queue[j].video_id
        /\ queue[i].video_id # NULL
        /\ queue[i].status = "failed"
        /\ queue[i].retry_count = 1
        /\ queue[j].status = "published"
        /\ queue[j].updated_at > queue[i].updated_at


\* the published rows that carry a published_at
Dated(q) ==
    {i \in Ids(q) : q[i].status = "published" /\ q[i].published_at # NULL}

\* C33: with a constant min_hours and a clock that does not go back, in
\* every state reached through add_to_queue, approve_item and process_queue
\* calls run one after the other, any two distinct published items have
\* published_at values at least min_hours apart.
C33_MinimumSpacing ==
    \A i, j \in Dated(queue) :
        i # j =>
            \/ queue[i].published_at[1] >= queue[j].published_at[1] + min_hours
            \/ queue[j].published_at[1] >= queue[i].published_at[1] + min_hours

\* C33 witness: two items are published, min_hours apart
C33_Witness ==
    \E i, j \in Dated(queue) :
        /\ i # j
        /\ queue[j].published_at[1] = queue[i].published_at[1] + min_hours

\* the positions of due whose item this invocation has published
PublishedInRun ==
    {k \in 1..Len(results) : results[k].status = "published"}

\* C34: with min_hours > 0, an invocation that publishes two items has
\* lasted at least min_hours (their published_at are that far apart), so
\* one that lasts less publishes at most one item; and as long as less than
\* min_hours have passed since it published an item, every due item after
\* that one is as it was at the call: approved, unchanged, not sent to the
\* publisher.
C34_OnePerInvocation ==
    (pc \in {"loop", "publishing", "return"} /\ ItemResults) =>
        /\ min_hours > 0
        /\ \A a, b \in PublishedInRun :
              a < b =>
                 queue[due[b]].published_at[1]
                    >= queue[due[a]].published_at[1] + min_hours
        /\ now < min_hours => Cardinality(PublishedInRun) <= 1
        /\ \A a \in PublishedInRun :
              now < queue[due[a]].published_at[1] + min_hours =>
                 \A b \in (a + 1)..Len(due) :
                    /\ queue[due[b]] = queue0[due[b]]
                    /\ queue[due[b]].status = "approved"
                    /\ calls[due[b]] = calls0[due[b]]

\* C34 witness: three items were due; the first was published, the second
\* stopped the loop, the second and third are still approved
C34_Witness ==
    /\ pc = "return"
    /\ Len(due) = 3
    /\ Len(results) = 2
    /\ results[1].status = "published"
    /\ results[2].status = "skipped"
    /\ now < min_hours
    /\ queue[due[2]].status = "approved"
    /\ queue[due[3]].status = "approved"

\* C35: uploading is transient: a row is uploading only while process_queue
\* waits for the publisher on it; when process_queue returns, every item it
\* moved to uploading is published or failed, and no item is uploading
\* between invocations.
C35_UploadingTransient ==
    /\ \A i \in Ids(queue) :
          queue[i].status = "uploading" => (pc = "publishing" /\ i = due[idx])
    /\ pc \in {"idle", "return"} =>
          \A i \in Ids(queue) : queue[i].status # "uploading"
    /\ last.op \in {"publish_ok", "publish_raised"} =>
          /\ prev[last.id].status = "uploading"
          /\ queue[last.id].status \in {"published", "failed"}

\* C35 witness: an invocation returned after the publisher raised for one
\* item and accepted another
C35_Witness ==
    /\ last.op = "process_queue"
    /\ \E a, b \in 1..Len(last.due) :
          /\ queue[last.due[a]].status = "failed"
          /\ calls[last.due[a]] = 1
          /\ queue[last.due[b]].status = "published"

\* C36: for every item created by add_to_queue and changed only by
\* approve_item and process_queue run one after the other, retry_count is 0
\* or 1, and it is 1 exactly when the status is failed.
C36_RetryCountZeroOrOne ==
    \A i \in Ids(queue) :
        /\ queue[i].retry_count \in {0, 1}
        /\ queue[i].retry_count = 1 <=> queue[i].status = "failed"

\* C36 witness: one item failed at the publisher, one for want of a video,
\* a third is not failed
C36_Witness ==
    \E i, j, k \in Ids(queue) :
        /\ queue[i].status = "failed" /\ calls[i] = 1
        /\ queue[i].retry_count = 1
        /\ queue[j].status = "failed" /\ calls[j] = 0
        /\ queue[j].retry_count = 1
        /\ queue[k].status # "failed" /\ queue[k].retry_count = 0


\* add_to_queue or a successful approve_item has just written a row
Touched == Added \/ (last.op = "approve_item" /\ last.ret)

\* every row of q was last updated before t
AllOlder(q, t) == \A i \in Ids(q) : q[i].updated_at < t

\* whichever rows the query picks, the breaker does not trip
NoneTripped(q) == \A rows \in recent_rows(q) : ~ Tripped(q, rows)

\* C37: when the breaker is tripped (the 3 most recently updated rows are
\* failed), one add_to_queue call or one successful approve_item writes a
\* row that is not failed with the newest updated_at, so that
\* check_consecutive_failures passes again without any successful publish,
\* and the next process_queue is not blocked by the breaker.
C37_SchedulingResetsBreaker ==
    /\ (Touched /\ AllRecentFailed(prev)) =>
          /\ \E rows \in recent_rows(queue) :
                check_consecutive_failures(queue, rows)
          /\ AllOlder(prev, now) => NoneTripped(queue)
          /\ Dated(queue) = Dated(prev)
    /\ (last.op = "can_publish" /\ NoneTripped(queue)) =>
          last.reason # ReasonPaused

\* C37 witness: three rows failed, nothing was ever published, and a row
\* scheduled later has put the breaker back
C37_Witness ==
    /\ Added
    /\ AllRecentFailed(prev)
    /\ AllOlder(prev, now)
    /\ NoneTripped(queue)
    /\ Dated(queue) = {}


\* the word group drawn into the file of frame k
ChunkOf(k) ==
    (CHOOSE f \in overlay.files : f.path = overlay.frames[k].file_path)
        .image.chunk

\* C38: the chunking loses and duplicates no word: for every prayer text,
\* texts with fewer words than chunks included, the word groups of frames
\* 0..n-1 taken in chunk_index order make up exactly the prayer's words,
\* and generate_single_overlay(chunk_index = i) draws the word group of
\* frame i of generate_overlay_frames.
C38_NoWordLostOrDuplicated ==
    /\ overlay.runs >= 1 =>
          LET n == Len(overlay.frames)
          IN /\ n >= 1
             /\ ChunkOf(1).from = 0
             /\ ChunkOf(n).to = overlay.job.words
             /\ \A k \in 1..n : ChunkOf(k).from <= ChunkOf(k).to
             /\ \A k \in 1..(n - 1) : ChunkOf(k).to = ChunkOf(k + 1).from
    /\ overlay.runs >= 2 =>
          \A f \in overlay.files :
              \E g \in overlay.files_before :
                  g.path = f.path /\ g.image.chunk = f.image.chunk

\* C38 witness: a prayer of two words, fewer than chunks, was built and a
\* frame drawn again: the last frame holds both words, the others none
C38_Witness ==
    /\ overlay.runs >= 2
    /\ overlay.job.words = 2
    /\ ChunkOf(Len(overlay.frames)) = [from |-> 0, to |-> 2]
    /\ ChunkOf(1) = [from |-> 0, to |-> 0]

====
